---- MODULE Spec2Model ----
(***************************************************************************)
(* DetectiveStylusVerifier (contracts/stylus-verifier/src/main.rs).        *)
(*                                                                         *)
(* The contract has an empty storage struct and two public entrypoints,    *)
(* verify_humanity_score and calculate_deception_rating, each a single     *)
(* synchronous call over U256 arguments.  The state of the model is the    *)
(* last call made to the contract: which entrypoint, its arguments and     *)
(* its outcome (a returned value, or a panic of the call).                 *)
(*                                                                         *)
(* U256 is alloy_primitives::U256 (ruint::Uint<256, 4>): `*` is            *)
(* wrapping_mul (product modulo 2^BITS) and `/` is wrapping_div, which     *)
(* panics on a zero divisor.  TLC's integers are 32 bits wide, so the      *)
(* model keeps the wrapping arithmetic but at a width of UintBits bits     *)
(* instead of 256; UintBits is chosen so that both latency thresholds and  *)
(* every product count * 100 are representable in TLC.                     *)
(***************************************************************************)
EXTENDS Integers, Sequences, FiniteSets, TLC

\* Width of the modelled unsigned integer type (256 in the source).
UintBits == 19

\* Small counts 0..MaxCount are enumerated exhaustively as arguments.
MaxCount == 3

Modulus == 2 ^ UintBits

U256 == 0 .. (Modulus - 1)

\* U256::ZERO
ZERO == 0

\* Smallest count whose product with 100 no longer fits the width.
FirstWrap == (Modulus \div 100) + 1

\* Argument values for the count parameters (correct_guesses, total_matches,
\* times_fooled_human, total_interactions).
Counts ==
    (0 .. MaxCount) \cup {30, 60, 61, 80, 100, 101, 200, 201}
        \cup {FirstWrap - 1, FirstWrap, Modulus - 1}

\* Argument values for avg_response_time_ms.
Latencies ==
    {0, 500, 501, 239999, 240000, 300000, 300001, Modulus - 1}

\* Outcome of a call: a returned value, or a panic that aborts the call.
Ok(v) == [ok |-> TRUE, value |-> v]

Panic == [ok |-> FALSE, value |-> "panic"]

\* Mutant of U256Mul: the product is not reduced to the width.
U256Mul_nowrap(a, b) == a * b

\* `*` on U256: wrapping multiplication.
U256Mul(a, b) == (a * b) % Modulus

\* `/` on U256: truncating division, panics on a zero divisor.
U256Div(a, b) == IF b = ZERO THEN Panic ELSE Ok(a \div b)

min_human_latency == 500

\* Mutant of max_human_latency: the ceiling named in the comment.
max_human_latency_abandon == 300 * 1000

max_human_latency == 240000

\* Mutant of HumanityDecision: non-strict comparisons.
HumanityDecision_nonstrict(accuracy, avg_response_time_ms) ==
    /\ accuracy >= 60
    /\ avg_response_time_ms >= min_human_latency
    /\ avg_response_time_ms <= max_human_latency

\* The final conjunction of verify_humanity_score.
HumanityDecision(accuracy, avg_response_time_ms) ==
    /\ accuracy > 60
    /\ avg_response_time_ms > min_human_latency
    /\ avg_response_time_ms < max_human_latency

verify_humanity_score(correct_guesses, total_matches, avg_response_time_ms) ==
    IF total_matches = ZERO
    THEN Ok(FALSE)
    ELSE LET accuracy == U256Div(U256Mul(correct_guesses, 100), total_matches)
         IN  IF ~accuracy.ok
             THEN Panic
             ELSE Ok(HumanityDecision(accuracy.value, avg_response_time_ms))

\* Mutant of calculate_deception_rating: the zero check is missing.
calculate_deception_rating_unguarded(times_fooled_human, total_interactions) ==
    U256Div(U256Mul(times_fooled_human, 100), total_interactions)

\* Mutant of calculate_deception_rating: division rounds up.
calculate_deception_rating_roundup(times_fooled_human, total_interactions) ==
    IF total_interactions = ZERO
    THEN Ok(ZERO)
    ELSE U256Div(U256Mul(times_fooled_human, 100) + (total_interactions - 1),
                 total_interactions)

\* Mutant of calculate_deception_rating: remainder instead of quotient.
calculate_deception_rating_rem(times_fooled_human, total_interactions) ==
    IF total_interactions = ZERO
    THEN Ok(ZERO)
    ELSE Ok(U256Mul(times_fooled_human, 100) % total_interactions)

\* Mutant of calculate_deception_rating: per-mille instead of per-cent.
calculate_deception_rating_permille(times_fooled_human, total_interactions) ==
    IF total_interactions = ZERO
    THEN Ok(ZERO)
    ELSE U256Div(U256Mul(times_fooled_human, 1000), total_interactions)

\* Mutant of calculate_deception_rating: the result is clamped to 100.
calculate_deception_rating_clamped(times_fooled_human, total_interactions) ==
    IF total_interactions = ZERO
    THEN Ok(ZERO)
    ELSE LET q == U256Div(U256Mul(times_fooled_human, 100), total_interactions)
         IN  IF q.ok /\ q.value > 100 THEN Ok(100) ELSE q

calculate_deception_rating(times_fooled_human, total_interactions) ==
    IF total_interactions = ZERO
    THEN Ok(ZERO)
    ELSE U256Div(U256Mul(times_fooled_human, 100), total_interactions)

VARIABLES op, args, outcome

vars == <<op, args, outcome>>

\* The deployed contract before any call: the storage struct has no fields.
Init ==
    /\ op = "none"
    /\ args = <<>>
    /\ outcome = Ok(FALSE)

CallVerifyHumanityScore ==
    \E c \in Counts, t \in Counts, a \in Latencies :
        /\ op' = "verify_humanity_score"
        /\ args' = <<c, t, a>>
        /\ outcome' = verify_humanity_score(c, t, a)

CallCalculateDeceptionRating ==
    \E f \in Counts, t \in Counts :
        /\ op' = "calculate_deception_rating"
        /\ args' = <<f, t>>
        /\ outcome' = calculate_deception_rating(f, t)

Next ==
    \/ CallVerifyHumanityScore
    \/ CallCalculateDeceptionRating

Spec == Init /\ [][Next]_vars

IsVerify == op = "verify_humanity_score"

IsRating == op = "calculate_deception_rating"

\* Arguments of the last call, by the names of the source's parameters.
correct_guesses == args[1]

total_matches == args[2]

avg_response_time_ms == args[3]

times_fooled_human == args[1]

total_interactions == args[2]

(***************************************************************************)
(* C1                                                                      *)
(***************************************************************************)

C2_ZeroDenominatorDefault ==
    /\ (IsVerify /\ total_matches = 0) =>
            (outcome.ok /\ outcome.value = FALSE)
    /\ (IsRating /\ total_interactions = 0) =>
            (outcome.ok /\ outcome.value = 0)

\* calculate_deception_rating has been called with a zero denominator and a
\* non-zero numerator, and returned.
C2_Witness ==
    /\ IsRating
    /\ total_interactions = 0
    /\ times_fooled_human > 0
    /\ outcome.ok

(***************************************************************************)
(* C3                                                                      *)
(***************************************************************************)

\* C3 (as stated): with total_interactions > 0, calculate_deception_rating
\* returns exactly floor((times_fooled_human * 100) / total_interactions),
\* the product taken as an unbounded integer.
C3_Original ==
    (IsRating /\ total_interactions > 0) =>
        /\ outcome.ok
        /\ outcome.value = (times_fooled_human * 100) \div total_interactions

\* C3 (amended): with total_interactions > 0, calculate_deception_rating
\* returns exactly floor(((times_fooled_human * 100) mod 2^width) /
\* total_interactions), truncated, with no rounding adjustment.
C3_RatingValue ==
    (IsRating /\ total_interactions > 0) =>
        /\ outcome.ok
        /\ outcome.value =
              ((times_fooled_human * 100) % Modulus) \div total_interactions

\* A call whose exact quotient is not an integer has returned the truncated
\* value: (2, 3) returns 66.
C3_Witness ==
    /\ IsRating
    /\ args = <<2, 3>>
    /\ outcome.ok
    /\ outcome.value = 66

(***************************************************************************)
(* C4                                                                      *)
(***************************************************************************)

\* The value calculate_deception_rating returns for (f, t), t > 0.
Rating(f, t) == calculate_deception_rating(f, t).value

\* C4 (as stated): with f <= t and t > 0 the rating is non-decreasing in f
\* (t fixed) and non-increasing in t (f fixed).
C4_Original ==
    (IsRating /\ total_interactions > 0
              /\ times_fooled_human <= total_interactions) =>
        /\ outcome.ok
        /\ \A f2 \in Counts :
              (times_fooled_human <= f2 /\ f2 <= total_interactions) =>
                  outcome.value <= Rating(f2, total_interactions)
        /\ \A t2 \in Counts :
              (total_interactions <= t2) =>
                  outcome.value >= Rating(times_fooled_human, t2)

\* C4 (amended): with f <= t and t > 0 the rating is non-increasing in t
\* (f fixed), and non-decreasing in f (t fixed) as long as the larger
\* product f2 * 100 does not wrap the integer width.
C4_Monotone ==
    (IsRating /\ total_interactions > 0
              /\ times_fooled_human <= total_interactions) =>
        /\ outcome.ok
        /\ \A f2 \in Counts :
              (/\ times_fooled_human <= f2
               /\ f2 <= total_interactions
               /\ f2 * 100 < Modulus) =>
                  outcome.value <= Rating(f2, total_interactions)
        /\ \A t2 \in Counts :
              (total_interactions <= t2) =>
                  outcome.value >= Rating(times_fooled_human, t2)

\* A call (f, t) with f <= t that has a strictly larger rating at a larger
\* f and a strictly smaller rating at a larger t.
C4_Witness ==
    /\ IsRating
    /\ outcome.ok
    /\ total_interactions > 0
    /\ times_fooled_human <= total_interactions
    /\ \E f2 \in Counts :
          /\ times_fooled_human < f2
          /\ f2 <= total_interactions
          /\ outcome.value < Rating(f2, total_interactions)
    /\ \E t2 \in Counts :
          /\ total_interactions < t2
          /\ outcome.value > Rating(times_fooled_human, t2)

(***************************************************************************)
(* C5                                                                      *)
(***************************************************************************)

\* C5: whenever times_fooled_human <= total_interactions the value returned
\* by calculate_deception_rating lies in [0, 100], the zero-denominator
\* case included.
C5_PercentageRange ==
    (IsRating /\ times_fooled_human <= total_interactions) =>
        /\ outcome.ok
        /\ outcome.value \in 0 .. 100

\* The upper end of the range is attained: f = t > 0 returns 100.
C5_Witness ==
    /\ IsRating
    /\ total_interactions > 0
    /\ times_fooled_human = total_interactions
    /\ outcome.ok
    /\ outcome.value = 100

(***************************************************************************)
(* C7                                                                      *)
(***************************************************************************)

C8_Original ==
    (IsRating /\ total_interactions > 0
              /\ times_fooled_human > total_interactions) =>
        (outcome.ok /\ outcome.value > 100)

\* C8 (amended): out-of-range inputs are not rejected or clamped: for
\* total_interactions > 0, times_fooled_human > total_interactions and a
\* product times_fooled_human * 100 that does not wrap the integer width,
\* the returned value is at least 100, and greater than 100 exactly when
\* 100 * (times_fooled_human - total_interactions) >= total_interactions.
C8_OverloadRatio ==
    (/\ IsRating
     /\ total_interactions > 0
     /\ times_fooled_human > total_interactions
     /\ times_fooled_human * 100 < Modulus) =>
        /\ outcome.ok
        /\ outcome.value >= 100
        /\ (outcome.value > 100) <=>
              (100 * (times_fooled_human - total_interactions)
                   >= total_interactions)

\* The spec's example (200, 100) has been called and returned 200.
C8_Witness ==
    /\ IsRating
    /\ args = <<200, 100>>
    /\ outcome.ok
    /\ outcome.value = 200

(***************************************************************************)
(* C9                                                                      *)
(***************************************************************************)

\* C9: a response time is "too slow" only above 300,000 ms: with
\* total_matches != 0, accuracy above 60 and
\* 500 < avg_response_time_ms <= 300000 the result is true.
C9_SlowOnlyAbove300000 ==
    (/\ IsVerify
     /\ total_matches # 0
     /\ ((correct_guesses * 100) % Modulus) \div total_matches > 60
     /\ avg_response_time_ms > 500
     /\ avg_response_time_ms <= 300000) =>
        (outcome.ok /\ outcome.value = TRUE)

(***************************************************************************)
(* C10                                                                     *)
(***************************************************************************)

\* C10: no call raises an error or aborts: every call, also one whose
\* product count * 100 exceeds the integer width, returns a boolean
\* (verify_humanity_score) or an integer of the width
\* (calculate_deception_rating).
C10_NoAbort ==
    /\ IsVerify => (outcome.ok /\ outcome.value \in BOOLEAN)
    /\ IsRating => (outcome.ok /\ outcome.value \in U256)

\* A call whose product wraps the width has returned a value.
C10_Witness ==
    /\ IsRating
    /\ total_interactions > 0
    /\ times_fooled_human * 100 >= Modulus
    /\ outcome.ok
    /\ outcome.value \in U256

====
